---- MODULE Spec2Model ----
(***************************************************************************)
(* A model of pkg/parser/parser.go of sql-parser-go: the recursive-descent *)
(* SQL parser with one-token lookahead, its error list, its cooperative    *)
(* cancellation check in nextToken and its synchronize() recovery routine. *)
(*                                                                         *)
(* Every method of Parser is an operator from a parser value (the fields   *)
(* of the Go struct) to the parser value after the call, together with the *)
(* values the method returns.  The actions of the state machine are calls  *)
(* of methods on one parser built by NewWithContext.                       *)
(*                                                                         *)
(* The lexer, the AST node types, the object pool and NewSyntaxError live  *)
(* in files that are not part of the sources at hand; they are modelled    *)
(* from the specification (sections 3, 4.1, 4.2 and 7).                    *)
(***************************************************************************)
EXTENDS Integers, Sequences, FiniteSets, TLC

VARIABLES
    p,      \* the Parser struct
    ret,    \* what the last method call returned
    hist    \* the calls made so far, oldest first

vars == <<p, ret, hist>>

(***************************************************************************)
(* Bounds of the model.                                                    *)
(***************************************************************************)
\* A call that has made MaxSpin token-advance attempts after the
\* cancellation signal was set, and is still inside one of its loops, is
\* reported as not having returned.
MaxSpin == 6
\* Number of method calls in one behaviour.
MaxCalls == 3
\* The cancellation signal can be armed to fire after 0..MaxTimer further
\* token advances.
MaxTimer == 5

(***************************************************************************)
(* Tokens (pkg/lexer, modelled from the specification, section 3 and 4.1). *)
(* A token is {kind, literal text, line, column}.                          *)
(***************************************************************************)
KeywordLexemes ==
    {"SELECT", "DISTINCT", "TOP", "FROM", "JOIN", "INNER", "LEFT", "RIGHT",
     "FULL", "ON", "WHERE", "GROUP", "BY", "HAVING", "ORDER", "AS", "AND",
     "OR", "LIKE", "IN", "INSERT", "UPDATE", "DELETE", "CREATE", "DROP",
     "ALTER"}

NumberLexemes == {"1", "2", "5", "10", "2.5"}

StringLexemes == {"'x'"}

\* The characters of the numeric literals of the model (TLC cannot index a
\* string).
Chars(s) ==
    CASE s = "1" -> <<"1">>
      [] s = "2" -> <<"2">>
      [] s = "5" -> <<"5">>
      [] s = "10" -> <<"1", "0">>
      [] s = "2.5" -> <<"2", ".", "5">>
      [] OTHER -> <<>>

\* strings.ToUpper on the identifier literals of the model.
ToUpper(s) ==
    CASE s \in {"desc", "Desc", "DESC"} -> "DESC"
      [] s \in {"asc", "ASC"} -> "ASC"
      [] s \in {"percent", "PERCENT"} -> "PERCENT"
      [] s = "a" -> "A"
      [] s = "b" -> "B"
      [] s = "c" -> "C"
      [] s = "f" -> "F"
      [] s = "t" -> "T"
      [] s = "u" -> "U"
      [] s = "v" -> "V"
      [] s = "t1" -> "T1"
      [] s = "t2" -> "T2"
      [] s = "x" -> "X"
      [] s = "y" -> "Y"
      [] OTHER -> s

\* The kind the tokenizer gives a lexeme.
TokenType(s) ==
    CASE s \in KeywordLexemes -> s
      [] s \in NumberLexemes -> "NUMBER"
      [] s \in StringLexemes -> "STRING"
      [] s = "*" -> "ASTERISK"
      [] s = "," -> "COMMA"
      [] s = "." -> "DOT"
      [] s = "(" -> "LPAREN"
      [] s = ")" -> "RPAREN"
      [] s = ";" -> "SEMICOLON"
      [] s = "=" -> "ASSIGN"
      [] s = "<>" -> "NOT_EQ"
      [] s = "<" -> "LT"
      [] s = ">" -> "GT"
      [] s = "<=" -> "LTE"
      [] s = ">=" -> "GTE"
      [] s = "+" -> "PLUS"
      [] s = "-" -> "MINUS"
      [] s = "/" -> "SLASH"
      [] OTHER -> "IDENT"

\* String literals capture the quoted content.
TokenLiteral(s) == IF s = "'x'" THEN "x" ELSE s

\* The i-th token of the text `input` (a sequence of lexemes, each one
\* column wide on line 1); EOF at and past the end of the input.
TokenAt(input, i) ==
    IF i <= Len(input)
    THEN [type |-> TokenType(input[i]), literal |-> TokenLiteral(input[i]),
          line |-> 1, column |-> i]
    ELSE [type |-> "EOF", literal |-> "", line |-> 1, column |-> Len(input) + 1]

\* The zero value of lexer.Token, held by curToken and peekToken before the
\* constructor has read anything.
ZeroToken == [type |-> "", literal |-> "", line |-> 0, column |-> 0]

\* lexer.New: a tokenizer at the start of its input.
LexerNew(input) == [input |-> input, pos |-> 0]

\* Lexer.NextToken: the next token; the position stops at the end of input.
LexerNextToken(l) == TokenAt(l.input, l.pos + 1)

LexerAdvance(l) ==
    [l EXCEPT !.pos = IF l.pos < Len(l.input) + 1 THEN l.pos + 1 ELSE l.pos]

(***************************************************************************)
(* Diagnostics.  An error message is its format, the literals formatted    *)
(* into it, and the position formatted into it (<<line, column>>, or <<>>  *)
(* when the message holds no position).                                    *)
(***************************************************************************)
Err(msg, lits) == [msg |-> msg, lits |-> lits, pos |-> <<>>]

NoErr == [msg |-> "", lits |-> <<>>, pos |-> <<>>]

CancelMsg == "parsing cancelled due to timeout"

\* NewSyntaxError(expected, actual, line, column).Error()
NewSyntaxError(expected, actual, line, column) ==
    [msg |-> "syntax error: expected %s, got %s", lits |-> <<expected, actual>>,
     pos |-> <<line, column>>]

(***************************************************************************)
(* The context: ctx.Done() is closed once `left` reaches 0.  left = -1 is  *)
(* a context that is never cancelled (context.Background()); left = n > 0  *)
(* is a deadline that passes after n further token advances.               *)
(***************************************************************************)
Done(q) == q.left = 0

Tick(left) == IF left > 0 THEN left - 1 ELSE left

(***************************************************************************)
(* Parser.nextToken (parser.go 56-68).                                     *)
(***************************************************************************)
nextToken(q) ==
    IF Done(q)
    THEN [q EXCEPT !.errors = Append(@, Err(CancelMsg, <<>>)),
                   !.spin = @ + 1]
    ELSE [q EXCEPT !.curToken = q.peekToken,
                   !.peekToken = LexerNextToken(q.l),
                   !.l = LexerAdvance(q.l),
                   !.tokenCount = @ + 1,
                   !.left = Tick(@)]

\* NewWithContext (parser.go 40-54) on a context with `left` advances to go.
NewWithContext(left, input) ==
    nextToken(nextToken(
        [l |-> LexerNew(input), curToken |-> ZeroToken, peekToken |-> ZeroToken,
         errors |-> <<>>, tokenCount |-> 0, left |-> left,
         spin |-> 0, hung |-> FALSE, gets |-> 0, puts |-> 0]))

\* New (parser.go 34-36)
New(input) == NewWithContext(-1, input)

\* Parser.Errors (parser.go 70-72)
Errors(q) == q.errors

\* Parser.peekError (parser.go 74-82)
peekError(q, t) ==
    [q EXCEPT !.errors = Append(@, NewSyntaxError(t, q.peekToken.type,
                                     q.peekToken.line, q.peekToken.column))]

\* Parser.curTokenIs, Parser.peekTokenIs (parser.go 118-124)
curTokenIs(q, t) == q.curToken.type = t

peekTokenIs(q, t) == q.peekToken.type = t

\* Parser.expectPeek (parser.go 126-133): the parser after the call and the
\* boolean returned.
expectPeek(q, t) ==
    IF peekTokenIs(q, t)
    THEN [p |-> nextToken(q), ok |-> TRUE]
    ELSE [p |-> peekError(q, t), ok |-> FALSE]

(***************************************************************************)
(* A call that is still inside a loop after MaxSpin cancelled advance      *)
(* attempts: the loop's state repeats, the model stops following it.       *)
(***************************************************************************)
StillSpinning(q) == q.spin >= MaxSpin

Hang(q) == [q EXCEPT !.hung = TRUE]

(***************************************************************************)
(* Parser.synchronize (parser.go 97-115).                                  *)
(***************************************************************************)
StatementKeywords ==
    {"SELECT", "INSERT", "UPDATE", "DELETE", "CREATE", "DROP", "ALTER"}

\* the loop of synchronize stopping on a semicolon without consuming it
RECURSIVE synchronizeLoop_KeepSemicolon(_)
synchronizeLoop_KeepSemicolon(q) ==
    IF curTokenIs(q, "EOF") THEN q
    ELSE IF StillSpinning(q) THEN Hang(q)
    ELSE IF curTokenIs(q, "SEMICOLON") THEN q
    ELSE IF q.curToken.type \in StatementKeywords THEN q
    ELSE synchronizeLoop_KeepSemicolon(nextToken(q))

RECURSIVE synchronizeLoop(_)
synchronizeLoop(q) ==
    IF curTokenIs(q, "EOF") THEN q
    ELSE IF StillSpinning(q) THEN Hang(q)
    ELSE IF curTokenIs(q, "SEMICOLON") THEN nextToken(q)
    ELSE IF q.curToken.type \in StatementKeywords THEN q
    ELSE synchronizeLoop(nextToken(q))

\* synchronize without its first advance: the token the failure stopped
\* on is examined too
synchronize_NoFirstAdvance(q) == synchronizeLoop(q)

synchronize(q) == synchronizeLoop(nextToken(q))

(***************************************************************************)
(* AST nodes (pkg/parser AST model, specification section 3) and the       *)
(* object pool: a Get or a Put is counted in the parser value.             *)
(***************************************************************************)
Nil == [node |-> "nil"]

StarExpression(table) == [node |-> "StarExpression", table |-> table]

ColumnReference(table, column) ==
    [node |-> "ColumnReference", table |-> table, column |-> column]

\* Literal{Value}: an int64 (mant), a float64 (mant * 10^exp) or a string.
IntLiteral(n) ==
    [node |-> "Literal", kind |-> "int", mant |-> n, exp |-> 0, str |-> ""]

FloatLiteral(m, e) ==
    [node |-> "Literal", kind |-> "float", mant |-> m, exp |-> e, str |-> ""]

StringLiteral(s) ==
    [node |-> "Literal", kind |-> "string", mant |-> 0, exp |-> 0, str |-> s]

BinaryExpression(left, operator, right) ==
    [node |-> "BinaryExpression", left |-> left, operator |-> operator,
     right |-> right]

FunctionCall(name, arguments) ==
    [node |-> "FunctionCall", name |-> name, arguments |-> arguments]

TableReference(schema, name, alias) ==
    [node |-> "TableReference", schema |-> schema, name |-> name,
     alias |-> alias]

FromClause(tables) == [node |-> "FromClause", tables |-> tables]

JoinClause(joinType, table, condition) ==
    [node |-> "JoinClause", joinType |-> joinType, table |-> table,
     condition |-> condition]

TopClause(count, percent) ==
    [node |-> "TopClause", count |-> count, percent |-> percent]

OrderByClause(expression, direction) ==
    [node |-> "OrderByClause", expression |-> expression,
     direction |-> direction]

\* The zero SelectStatement handed out by GetSelectStatement.
EmptySelectStatement ==
    [node |-> "SelectStatement", distinct |-> FALSE, top |-> Nil,
     columns |-> <<>>, from |-> Nil, joins |-> <<>>, where |-> Nil,
     groupBy |-> <<>>, having |-> Nil, orderBy |-> <<>>]

\* GetSelectStatement, GetJoinClause, GetBinaryExpression, GetColumnReference
PoolGet(q) == [q EXCEPT !.gets = @ + 1]

\* PutSelectStatement, PutJoinClause
PoolPut(q) == [q EXCEPT !.puts = @ + 1]

(***************************************************************************)
(* What a parse method returns: the parser after the call, and either a    *)
(* node and a nil error (ok) or a nil node and an error.                   *)
(***************************************************************************)
Ok(q, v) == [p |-> q, ok |-> TRUE, val |-> v, err |-> NoErr]

Fail(q, e) == [p |-> q, ok |-> FALSE, val |-> Nil, err |-> e]

\* The call has not returned (see Hang).
NoReturn(q) == Fail(Hang(q), NoErr)

(***************************************************************************)
(* Go's x := f() binds the value of one call to a name used several times. *)
(* It is written Only({ ... x ... : x \in {f} }) here.                     *)
(***************************************************************************)
Only(S) == CHOOSE v \in S : TRUE

(***************************************************************************)
(* strconv on the numeric literals of the model.                           *)
(***************************************************************************)
Digits == <<"0", "1", "2", "3", "4", "5", "6", "7", "8", "9">>

IsDigit(c) == \E i \in 1..10 : Digits[i] = c

DigitVal(c) == (CHOOSE i \in 1..10 : Digits[i] = c) - 1

RECURSIVE DecimalValue(_)
DecimalValue(cs) ==
    IF cs = <<>> THEN 0
    ELSE DecimalValue(SubSeq(cs, 1, Len(cs) - 1)) * 10 + DigitVal(cs[Len(cs)])

AllDigits(cs) == cs # <<>> /\ \A i \in 1..Len(cs) : IsDigit(cs[i])

\* strings.Contains(s, ".")
ContainsDot(s) == \E c \in {Chars(s)} : \E i \in 1..Len(c) : c[i] = "."

\* strconv.Atoi on an unsigned literal: base 10.
Atoi(s) ==
    Only({ IF AllDigits(cs)
           THEN [ok |-> TRUE, val |-> DecimalValue(cs)]
           ELSE [ok |-> FALSE, val |-> 0] : cs \in {Chars(s)} })

\* strconv.ParseInt(s, 0, 64) on an unsigned decimal literal without a
\* base prefix (a leading 0 selects another base and is not decimal).
ParseInt(s) ==
    Only({ IF AllDigits(cs) /\ (Len(cs) = 1 \/ cs[1] # "0")
           THEN [ok |-> TRUE, val |-> DecimalValue(cs)]
           ELSE [ok |-> FALSE, val |-> 0] : cs \in {Chars(s)} })

\* The digits of cs around its dot at d, as mant * 10^exp.
FloatAround(cs, d) ==
    Only({ IF AllDigits(ds)
           THEN [ok |-> TRUE, mant |-> DecimalValue(ds), exp |-> d - Len(cs)]
           ELSE [ok |-> FALSE, mant |-> 0, exp |-> 0] :
           ds \in {SubSeq(cs, 1, d - 1) \o SubSeq(cs, d + 1, Len(cs))} })

\* strconv.ParseFloat(s, 64) on digits with one dot.
ParseFloat(s) ==
    Only({ IF \E d \in 1..Len(cs) : cs[d] = "."
           THEN FloatAround(cs, CHOOSE d \in 1..Len(cs) : cs[d] = ".")
           ELSE [ok |-> FALSE, mant |-> 0, exp |-> 0] : cs \in {Chars(s)} })

(***************************************************************************)
(* Expressions (parser.go 541-714).                                        *)
(***************************************************************************)
\* Parser.isInfixOperator (parser.go 705-714)
isInfixOperator(tokenType) ==
    tokenType \in {"ASSIGN", "EQ", "NOT_EQ", "LT", "GT", "LTE", "GTE", "AND",
                   "OR", "PLUS", "MINUS", "ASTERISK", "SLASH", "LIKE", "IN"}

\* Parser.parseNumberLiteral (parser.go 663-682)
parseNumberLiteral(q) ==
    IF ContainsDot(q.curToken.literal)
    THEN Only({ IF ~v.ok
                THEN Fail(q, Err("could not parse %q as float",
                                 <<q.curToken.literal>>))
                ELSE Ok(nextToken(q), FloatLiteral(v.mant, v.exp)) :
                v \in {ParseFloat(q.curToken.literal)} })
    ELSE Only({ IF ~v.ok
                THEN Fail(q, Err("could not parse %q as integer",
                                 <<q.curToken.literal>>))
                ELSE Ok(nextToken(q), IntLiteral(v.val)) :
                v \in {ParseInt(q.curToken.literal)} })

\* Parser.parseStringLiteral (parser.go 684-688)
parseStringLiteral(q) == Ok(nextToken(q), StringLiteral(q.curToken.literal))

RECURSIVE parseInfixExpression(_), parseInfixLoop(_, _),
          parsePrimaryExpression(_), parseIdentifierExpression(_),
          parseFunctionCall(_, _), parseArguments(_, _),
          parseGroupedExpression(_)

\* Parser.parseExpression (parser.go 542-544)
parseExpression(q) == parseInfixExpression(q)

\* Parser.parseInfixExpression (parser.go 546-569)
parseInfixExpression(q) ==
    Only({ IF ~left.ok THEN left ELSE parseInfixLoop(left.p, left.val) :
           left \in {parsePrimaryExpression(q)} })

\* The for loop of parseInfixExpression (parser.go 552-566), `left` so far.
parseInfixLoop(q, left) ==
    IF ~isInfixOperator(q.curToken.type) THEN Ok(q, left)
    ELSE IF StillSpinning(q) THEN NoReturn(q)
    ELSE Only({ IF ~right.ok THEN right
                ELSE parseInfixLoop(PoolGet(right.p),
                         BinaryExpression(left, q.curToken.literal, right.val)) :
                right \in {parsePrimaryExpression(nextToken(q))} })

\* Parser.parsePrimaryExpression (parser.go 571-588)
parsePrimaryExpression(q) ==
    CASE q.curToken.type = "IDENT" -> parseIdentifierExpression(q)
      [] q.curToken.type = "NUMBER" -> parseNumberLiteral(q)
      [] q.curToken.type = "STRING" -> parseStringLiteral(q)
      [] q.curToken.type = "ASTERISK" -> Ok(nextToken(q), StarExpression(""))
      [] q.curToken.type = "LPAREN" -> parseGroupedExpression(q)
      [] OTHER ->
            Fail(q, Err("unexpected token in expression: %s",
                        <<q.curToken.literal>>))

\* parseIdentifierExpression after the dot (parser.go 596-611), q2 the
\* parser once the dot is consumed.
parseQualified(q2, firstIdent) ==
    IF ~curTokenIs(q2, "IDENT") /\ ~curTokenIs(q2, "ASTERISK")
    THEN Fail(q2, Err("expected column name after dot, got %s",
                      <<q2.curToken.literal>>))
    ELSE IF curTokenIs(q2, "ASTERISK")
    THEN Ok(nextToken(q2), StarExpression(firstIdent))
    ELSE Ok(nextToken(PoolGet(q2)),
            ColumnReference(firstIdent, q2.curToken.literal))

\* Parser.parseIdentifierExpression (parser.go 590-623)
parseIdentifierExpression(q) ==
    Only({ IF curTokenIs(q1, "DOT")
           THEN parseQualified(nextToken(q1), q.curToken.literal)
           ELSE IF curTokenIs(q1, "LPAREN")
           THEN parseFunctionCall(q1, q.curToken.literal)
           ELSE Ok(PoolGet(q1), ColumnReference("", q.curToken.literal)) :
           q1 \in {nextToken(q)} })

\* The end of parseFunctionCall (parser.go 651-660), args the arguments
\* parsed.
closeFunctionCall(args, name) ==
    IF ~args.ok THEN args
    ELSE IF ~curTokenIs(args.p, "RPAREN")
    THEN Fail(args.p, Err("expected ')' to close function call, got %s",
                          <<args.p.curToken.literal>>))
    ELSE Ok(nextToken(args.p), FunctionCall(name, args.val))

\* Parser.parseFunctionCall (parser.go 625-661)
parseFunctionCall(q, name) ==
    IF ~curTokenIs(q, "LPAREN")
    THEN Fail(q, Err("expected '(' for function call, got %s",
                     <<q.curToken.literal>>))
    ELSE Only({ IF curTokenIs(q1, "RPAREN")
                THEN closeFunctionCall(Ok(q1, <<>>), name)
                ELSE Only({ IF ~arg.ok THEN arg
                            ELSE closeFunctionCall(
                                     parseArguments(arg.p, <<arg.val>>), name) :
                            arg \in {parseExpression(q1)} }) :
                q1 \in {nextToken(q)} })

\* The for loop of parseFunctionCall (parser.go 641-648), `arguments` so far.
parseArguments(q, arguments) ==
    IF ~curTokenIs(q, "COMMA") THEN Ok(q, arguments)
    ELSE Only({ IF ~arg.ok THEN arg
                ELSE parseArguments(arg.p, Append(arguments, arg.val)) :
                arg \in {parseExpression(nextToken(q))} })

\* The end of parseGroupedExpression (parser.go 698-702), exp the expression
\* parsed and e what expectPeek returned.
closeGroupedExpression(exp, e) ==
    IF ~e.ok
    THEN Fail(e.p, Err("expected ')' to close grouped expression", <<>>))
    ELSE Ok(e.p, exp.val)

\* Parser.parseGroupedExpression (parser.go 690-703)
parseGroupedExpression(q) ==
    IF StillSpinning(q) THEN NoReturn(q)
    ELSE Only({ IF ~exp.ok THEN exp
                ELSE closeGroupedExpression(exp, expectPeek(exp.p, "RPAREN")) :
                exp \in {parseExpression(nextToken(q))} })

(***************************************************************************)
(* SELECT (parser.go 162-539).                                             *)
(***************************************************************************)
\* The end of parseTopClause (parser.go 270-279), q2 the parser once the
\* count is consumed.
parsePercent(q2, count) ==
    IF curTokenIs(q2, "IDENT") /\ ToUpper(q2.curToken.literal) = "PERCENT"
    THEN Ok(nextToken(q2), TopClause(count, TRUE))
    ELSE Ok(q2, TopClause(count, FALSE))

\* parseTopClause at the count (parser.go 261-279)
parseTopCount(q1) ==
    IF ~curTokenIs(q1, "NUMBER")
    THEN Fail(q1, Err("expected number after TOP, got %s",
                      <<q1.curToken.literal>>))
    ELSE Only({ IF ~count.ok
                THEN Fail(q1, Err("invalid number in TOP clause: %s",
                                  <<q1.curToken.literal>>))
                ELSE parsePercent(nextToken(q1), count.val) :
                count \in {Atoi(q1.curToken.literal)} })

\* Parser.parseTopClause (parser.go 254-280)
parseTopClause(q) ==
    IF ~curTokenIs(q, "TOP")
    THEN Fail(q, Err("expected TOP, got %s", <<q.curToken.literal>>))
    ELSE parseTopCount(nextToken(q))

\* The for loop of parseSelectList (parser.go 300-313), `columns` so far.
RECURSIVE parseSelectListLoop(_, _)
parseSelectListLoop(q, columns) ==
    IF ~curTokenIs(q, "COMMA") THEN Ok(q, columns)
    ELSE Only({ IF curTokenIs(q1, "ASTERISK")
                THEN parseSelectListLoop(nextToken(q1),
                                         Append(columns, StarExpression("")))
                ELSE Only({ IF ~expr.ok THEN expr
                            ELSE parseSelectListLoop(expr.p,
                                     Append(columns, expr.val)) :
                            expr \in {parseExpression(q1)} }) :
                q1 \in {nextToken(q)} })

\* Parser.parseSelectList (parser.go 282-316)
parseSelectList(q) ==
    IF curTokenIs(q, "ASTERISK")
    THEN Ok(nextToken(q), <<StarExpression("")>>)
    ELSE Only({ IF ~expr.ok THEN expr
                ELSE parseSelectListLoop(expr.p, <<expr.val>>) :
                expr \in {parseExpression(q)} })

\* parseTableReference after AS (parser.go 373-378), q4 the parser once AS
\* is consumed.
parseAlias(q4, table) ==
    IF ~curTokenIs(q4, "IDENT")
    THEN Fail(q4, Err("expected alias after AS, got %s", <<q4.curToken.literal>>))
    ELSE Ok(nextToken(q4), [table EXCEPT !.alias = q4.curToken.literal])

\* parseTableReference at the alias (parser.go 371-385), `table` the
\* reference so far.
parseTableAlias(q3, table) ==
    IF curTokenIs(q3, "AS") THEN parseAlias(nextToken(q3), table)
    ELSE IF curTokenIs(q3, "IDENT")
    THEN Ok(nextToken(q3), [table EXCEPT !.alias = q3.curToken.literal])
    ELSE Ok(q3, table)

\* parseTableReference after the dot (parser.go 360-366), q2 the parser
\* once the dot is consumed.
parseSchemaTable(q2, firstIdent) ==
    IF ~curTokenIs(q2, "IDENT")
    THEN Fail(q2, Err("expected table name after dot, got %s",
                      <<q2.curToken.literal>>))
    ELSE parseTableAlias(nextToken(q2),
                         TableReference(firstIdent, q2.curToken.literal, ""))

\* Parser.parseTableReference (parser.go 347-386)
parseTableReference(q) ==
    IF ~curTokenIs(q, "IDENT")
    THEN Fail(q, Err("expected table name, got %s", <<q.curToken.literal>>))
    ELSE Only({ IF curTokenIs(q1, "DOT")
                THEN parseSchemaTable(nextToken(q1), q.curToken.literal)
                ELSE parseTableAlias(q1,
                         TableReference("", q.curToken.literal, "")) :
                q1 \in {nextToken(q)} })

\* The for loop of parseFromClause (parser.go 335-342), `tables` so far.
RECURSIVE parseFromLoop(_, _)
parseFromLoop(q, tables) ==
    IF ~curTokenIs(q, "COMMA") THEN Ok(q, FromClause(tables))
    ELSE Only({ IF ~table.ok THEN table
                ELSE parseFromLoop(table.p, Append(tables, table.val)) :
                table \in {parseTableReference(nextToken(q))} })

\* Parser.parseFromClause (parser.go 318-345)
parseFromClause(q) ==
    IF ~curTokenIs(q, "FROM")
    THEN Fail(q, Err("expected FROM, got %s", <<q.curToken.literal>>))
    ELSE Only({ IF ~table.ok THEN table
                ELSE parseFromLoop(table.p, <<table.val>>) :
                table \in {parseTableReference(nextToken(q))} })

\* The join type branches of parseJoinClause (parser.go 391-423): the parser
\* after them, the join type, and whether the JOIN keyword was found.
parseJoinType(q) ==
    IF q.curToken.type \in {"INNER", "LEFT", "RIGHT", "FULL"}
    THEN Only({ [p |-> e.p, ok |-> e.ok, joinType |-> q.curToken.type] :
                e \in {expectPeek(nextToken(q), "JOIN")} })
    ELSE IF curTokenIs(q, "JOIN")
    THEN [p |-> nextToken(q), ok |-> TRUE, joinType |-> "INNER"]
    ELSE [p |-> q, ok |-> TRUE, joinType |-> ""]

\* The end of parseJoinClause (parser.go 441-447): PutJoinClause runs when
\* parseExpression has returned an error, not while it has not returned.
parseJoinCondition(condition, joinType, table) ==
    IF condition.p.hung THEN condition
    ELSE IF ~condition.ok THEN Fail(PoolPut(condition.p), condition.err)
    ELSE Ok(condition.p, JoinClause(joinType, table, condition.val))

\* parseJoinClause from the table reference on (parser.go 425-447)
parseJoinTable(table, joinType) ==
    IF table.p.hung THEN table
    ELSE IF ~table.ok THEN Fail(PoolPut(table.p), table.err)
    ELSE IF ~curTokenIs(table.p, "ON")
    THEN Fail(PoolPut(table.p), Err("expected ON after JOIN table, got %s",
                                    <<table.p.curToken.literal>>))
    ELSE parseJoinCondition(parseExpression(nextToken(table.p)), joinType,
                            table.val)

\* Parser.parseJoinClause (parser.go 388-448)
parseJoinClause(q) ==
    Only({ IF ~jt.ok
           THEN Fail(PoolPut(jt.p), Err("expected JOIN after %s", <<jt.joinType>>))
           ELSE parseJoinTable(parseTableReference(jt.p), jt.joinType) :
           jt \in {parseJoinType(PoolGet(q))} })

\* The for loop of parseGroupByClause (parser.go 472-479), `expressions`
\* so far.
RECURSIVE parseGroupByLoop(_, _)
parseGroupByLoop(q, expressions) ==
    IF ~curTokenIs(q, "COMMA") THEN Ok(q, expressions)
    ELSE Only({ IF ~expr.ok THEN expr
                ELSE parseGroupByLoop(expr.p, Append(expressions, expr.val)) :
                expr \in {parseExpression(nextToken(q))} })

\* Parser.parseGroupByClause (parser.go 450-482)
parseGroupByClause(q) ==
    IF ~curTokenIs(q, "GROUP")
    THEN Fail(q, Err("expected GROUP, got %s", <<q.curToken.literal>>))
    ELSE Only({ IF ~e.ok THEN Fail(e.p, Err("expected BY after GROUP", <<>>))
                ELSE Only({ IF ~expr.ok THEN expr
                            ELSE parseGroupByLoop(expr.p, <<expr.val>>) :
                            expr \in {parseExpression(nextToken(e.p))} }) :
                e \in {expectPeek(nextToken(q), "BY")} })

\* The end of parseOrderByItem (parser.go 524-538), q1 the parser once the
\* expression is parsed.
parseDirection(q1, expression) ==
    IF curTokenIs(q1, "IDENT")
       /\ ToUpper(q1.curToken.literal) \in {"ASC", "DESC"}
    THEN Ok(nextToken(q1),
            OrderByClause(expression, ToUpper(q1.curToken.literal)))
    ELSE Ok(q1, OrderByClause(expression, "ASC"))

\* Parser.parseOrderByItem (parser.go 518-539)
parseOrderByItem(q) ==
    Only({ IF ~expr.ok THEN expr ELSE parseDirection(expr.p, expr.val) :
           expr \in {parseExpression(q)} })

\* The for loop of parseOrderByClause (parser.go 506-513), `clauses` so far.
RECURSIVE parseOrderByLoop(_, _)
parseOrderByLoop(q, clauses) ==
    IF ~curTokenIs(q, "COMMA") THEN Ok(q, clauses)
    ELSE Only({ IF ~clause.ok THEN clause
                ELSE parseOrderByLoop(clause.p, Append(clauses, clause.val)) :
                clause \in {parseOrderByItem(nextToken(q))} })

\* Parser.parseOrderByClause (parser.go 484-516)
parseOrderByClause(q) ==
    IF ~curTokenIs(q, "ORDER")
    THEN Fail(q, Err("expected ORDER, got %s", <<q.curToken.literal>>))
    ELSE Only({ IF ~e.ok THEN Fail(e.p, Err("expected BY after ORDER", <<>>))
                ELSE Only({ IF ~clause.ok THEN clause
                            ELSE parseOrderByLoop(clause.p, <<clause.val>>) :
                            clause \in {parseOrderByItem(nextToken(e.p))} }) :
                e \in {expectPeek(nextToken(q), "BY")} })

\* A clause of parseSelectStatement parsed: the statement with the clause
\* stored in it by `Set`, or the clause's error.
Stored(clause, stmt, Set(_, _)) ==
    IF ~clause.ok THEN clause ELSE Ok(clause.p, Set(stmt, clause.val))

SetTop(stmt, v) == [stmt EXCEPT !.top = v]
SetColumns(stmt, v) == [stmt EXCEPT !.columns = v]
SetFrom(stmt, v) == [stmt EXCEPT !.from = v]
AddJoin(stmt, v) == [stmt EXCEPT !.joins = Append(@, v)]
SetWhere(stmt, v) == [stmt EXCEPT !.where = v]
SetGroupBy(stmt, v) == [stmt EXCEPT !.groupBy = v]
SetHaving(stmt, v) == [stmt EXCEPT !.having = v]
SetOrderBy(stmt, v) == [stmt EXCEPT !.orderBy = v]

\* parser.go 173-177
selectDistinct(q, stmt) ==
    IF curTokenIs(q, "DISTINCT")
    THEN Ok(nextToken(q), [stmt EXCEPT !.distinct = TRUE])
    ELSE Ok(q, stmt)

\* parser.go 179-186
selectTop(r) ==
    IF ~r.ok \/ ~curTokenIs(r.p, "TOP") THEN r
    ELSE Stored(parseTopClause(r.p), r.val, SetTop)

\* parser.go 188-193
selectColumns(r) ==
    IF ~r.ok THEN r ELSE Stored(parseSelectList(r.p), r.val, SetColumns)

\* parser.go 195-202
selectFrom(r) ==
    IF ~r.ok \/ ~curTokenIs(r.p, "FROM") THEN r
    ELSE Stored(parseFromClause(r.p), r.val, SetFrom)

\* parser.go 204-211
RECURSIVE selectJoins(_)
selectJoins(r) ==
    IF ~r.ok \/ r.p.curToken.type \notin {"JOIN", "INNER", "LEFT", "RIGHT", "FULL"}
    THEN r
    ELSE selectJoins(Stored(parseJoinClause(r.p), r.val, AddJoin))

\* parser.go 213-221
selectWhere(r) ==
    IF ~r.ok \/ ~curTokenIs(r.p, "WHERE") THEN r
    ELSE Stored(parseExpression(nextToken(r.p)), r.val, SetWhere)

\* parser.go 223-230
selectGroupBy(r) ==
    IF ~r.ok \/ ~curTokenIs(r.p, "GROUP") THEN r
    ELSE Stored(parseGroupByClause(r.p), r.val, SetGroupBy)

\* parser.go 232-240
selectHaving(r) ==
    IF ~r.ok \/ ~curTokenIs(r.p, "HAVING") THEN r
    ELSE Stored(parseExpression(nextToken(r.p)), r.val, SetHaving)

\* parser.go 242-249
selectOrderBy(r) ==
    IF ~r.ok \/ ~curTokenIs(r.p, "ORDER") THEN r
    ELSE Stored(parseOrderByClause(r.p), r.val, SetOrderBy)

\* Parser.parseSelectStatement (parser.go 163-252).  Each clause is parsed
\* when the clauses before it returned no error; r is the parser and the
\* statement so far, or the error returned.
parseSelectStatement(q) ==
    IF ~curTokenIs(q, "SELECT")
    THEN Fail(PoolPut(PoolGet(q)),
              Err("expected SELECT, got %s", <<q.curToken.literal>>))
    ELSE selectOrderBy(selectHaving(selectGroupBy(selectWhere(selectJoins(
         selectFrom(selectColumns(selectTop(
             selectDistinct(nextToken(PoolGet(q)), EmptySelectStatement)))))))))

\* Parser.parseInsertStatement, parseUpdateStatement, parseDeleteStatement
\* (parser.go 717-727)
parseInsertStatement(q) ==
    Fail(q, Err("INSERT statement parsing not implemented yet", <<>>))

parseUpdateStatement(q) ==
    Fail(q, Err("UPDATE statement parsing not implemented yet", <<>>))

parseDeleteStatement(q) ==
    Fail(q, Err("DELETE statement parsing not implemented yet", <<>>))

\* A Statement interface value holding a nil pointer of type `type`: it is
\* not the nil Statement (stmt != nil is true for the caller).
NilPointer(type) == [node |-> "nil", type |-> type]

\* `return p.parseXStatement()` in a function returning (Statement, error):
\* the pointer returned, nil included, is converted to the interface.
AsStatement(r, type) ==
    IF r.p.hung \/ r.val # Nil THEN r
    ELSE [r EXCEPT !.val = NilPointer(type)]

\* Parser.ParseStatement (parser.go 147-160).  Only the default branch
\* returns the nil Statement.
ParseStatement(q) ==
    CASE q.curToken.type = "SELECT" ->
             AsStatement(parseSelectStatement(q), "*SelectStatement")
      [] q.curToken.type = "INSERT" ->
             AsStatement(parseInsertStatement(q), "*InsertStatement")
      [] q.curToken.type = "UPDATE" ->
             AsStatement(parseUpdateStatement(q), "*UpdateStatement")
      [] q.curToken.type = "DELETE" ->
             AsStatement(parseDeleteStatement(q), "*DeleteStatement")
      [] OTHER -> Fail(q, Err("unsupported statement type: %s",
                              <<q.curToken.literal>>))

(***************************************************************************)
(* The texts the parser is run on.                                         *)
(***************************************************************************)
\* Concatenation of a sequence of sequences.
RECURSIVE Flatten(_)
Flatten(ss) == IF ss = <<>> THEN <<>> ELSE Head(ss) \o Flatten(Tail(ss))

\* All sequences of lo..hi elements of S.
SeqsOf(S, lo, hi) == UNION {[1..n -> S] : n \in lo..hi}

\* The elements of `items` joined by `sep`.
RECURSIVE JoinWith(_, _)
JoinWith(items, sep) ==
    IF Len(items) <= 1 THEN Flatten(items)
    ELSE Head(items) \o sep \o JoinWith(Tail(items), sep)

\* join clauses: [INNER|LEFT|RIGHT|FULL] JOIN tableRef ON expr
JoinClauses ==
    {<<"JOIN", "u", "ON", "a", "=", "b">>,
     <<"INNER", "JOIN", "u", "ON", "a", "=", "b">>,
     <<"LEFT", "JOIN", "v", "y", "ON", "a">>,
     <<"RIGHT", "JOIN", "v", "ON", "a">>,
     <<"FULL", "JOIN", "u", "ON", "b">>,
     <<"JOIN", "v", "AS", "y", "ON", "t", ".", "a", "=", "y", ".", "b">>}

\* SELECT ... FROM t followed by 0..2 join clauses
JoinSelects ==
    {<<"SELECT", "a", "FROM", "t">> \o Flatten(js) : js \in SeqsOf(JoinClauses, 0, 2)}

\* select lists of 1..3 items, each '*' or an expression
SelectItems == {<<"*">>, <<"a">>, <<"t", ".", "*">>}

ListSelects ==
    {<<"SELECT">> \o JoinWith(items, <<",">>) \o <<"FROM", "t">> :
        items \in SeqsOf(SelectItems, 1, 3)}

\* ORDER BY lists of 1..2 items, each expr [ASC|DESC] in any letter case
OrderItems == {<<"a">>, <<"a", "DESC">>, <<"b", "asc">>, <<"a", "+", "b", "Desc">>}

OrderSelects ==
    {<<"SELECT", "a", "FROM", "t", "ORDER", "BY">> \o JoinWith(items, <<",">>) :
        items \in SeqsOf(OrderItems, 1, 2)}

\* the scenarios of the specification (section 8), and texts around them
Scenarios ==
    {<<"SELECT", "u", ".", "a", ",", "y", ".", "b", "FROM", "t", "u",
       "JOIN", "v", "y", "ON", "u", ".", "a", "=", "y", ".", "b">>,
     <<"SELECT", "TOP", "10", "PERCENT", "*", "FROM", "t">>,
     <<"SELECT", "DISTINCT", "TOP", "5", "a", "FROM", "t">>,
     <<"SELECT", "TOP", "2.5", "a">>,
     <<"SELECT", "a", "FROM", "t1", ",", "t2", "WHERE", "a", ">", "5",
       "ORDER", "BY", "a", "DESC">>,
     <<"SELECT", "a", "FROM", "t", "ORDER", "BY", "BY", "a", "desc", ",", "b">>,
     <<"SELECT", "a", "FROM", "t", "GROUP", "BY", "a", "HAVING", "f", "(", "a", ")", ">", "1">>,
     <<"SELECT", "a", "FROM", "t", "GROUP", "BY", "BY", "a", ",", "b", "HAVING", "a">>,
     <<"SELECT", "FROM", "t">>,
     <<"INSERT", "INTO", "t", "VALUES", "(", "1", ")">>,
     <<"UPDATE", "t">>,
     <<"DELETE", "FROM", "t">>,
     <<"SELECT", "a", "FROM", "t", "x", "y">>,
     <<"SELECT", "a", "FROM", "x", ".", "t", "AS", "y", "WHERE", "a", "LIKE", "'x'">>,
     <<"SELECT", "f", "(", ")", ",", "f", "(", "a", ",", "2.5", ")", "FROM", "t">>,
     <<"SELECT", "(", "a", ")", "FROM", "t">>,
     <<"SELECT", "(", "a", ")", ")", "FROM", "t">>,
     <<"SELECT", "a", "*", "b", "FROM", "t">>,
     <<>>}

\* S1 ; S2 where S1 fails to parse
FailingStatements ==
    {<<"SELECT", "1", "FROM">>,
     <<"SELECT", "FROM", "t">>,
     <<"SELECT", "a", ",">>,
     <<"SELECT", "(", "a">>,
     <<"SELECT", "a", "FROM", "t", "LEFT", "JOIN", "u", "ON", "a">>,
     <<"SELECT", "a", "FROM", "t", "ORDER", "BY", "a">>,
     <<"SELECT", "TOP", "x", "a">>,
     <<"INSERT", "INTO", "t", "VALUES", "(", "1", ")">>,
     <<"INSERT", "INTO", "t", "SELECT", "1">>,
     <<"SELECT", "a", "FROM", "DELETE">>,
     <<"SELECT", "a", "FROM", "t", "WHERE", "UPDATE", "t">>,
     <<"CREATE", "t">>,
     <<"x">>,
     <<>>}

AcceptedSelects ==
    {<<"SELECT", "2", "FROM", "t">>,
     <<"SELECT", "*", "FROM", "t", "JOIN", "u", "ON", "a", "=", "b">>,
     <<"SELECT", "a">>}

Batches ==
    {s1 \o <<";">> \o s2 : s1 \in FailingStatements, s2 \in AcceptedSelects}

\* expressions: chains p0 op1 p1 ... of primaries, and texts around them
Primaries == {<<"a">>, <<"1">>, <<"*">>, <<"(", "b", ")">>}

ChainOperators == {<<"+">>, <<"*">>, <<"AND">>, <<"=">>}

Chains ==
    {p0 \o o1 \o p1 : p0 \in Primaries, o1 \in ChainOperators, p1 \in Primaries}
    \cup {<<"a">> \o o1 \o <<"b">> \o o2 \o <<"c">> :
             o1 \in ChainOperators, o2 \in ChainOperators}

Expressions ==
    {<<"(", "a", ")">>,
     <<"(", "a", ")", ")">>,
     <<"(", "a", "+", "b", ")", "*", "c">>,
     <<"(", "(", "a", ")", ")">>,
     <<"(", "a">>,
     <<"a", "IN", "(", "1", ")">>,
     <<"f", "(", "a", ",", "(", "b", ")", ")">>,
     <<"t", ".", "a", "<>", "'x'", "OR", "t", ".", "*">>,
     <<"a", "<", "1", "-", "2", "/", "5", ">=", "b", "<=", "c">>,
     <<"a", ".", "1">>,
     <<"f", "(", "a", "b">>}

\* the texts statements are parsed from
Inputs == JoinSelects \cup ListSelects \cup OrderSelects \cup Scenarios \cup Batches

\* the texts the expression methods are called on
UnitInputs == Chains \cup Expressions \cup Scenarios

\* The contexts a parser is built with: never cancelled (-1), or cancelled
\* after 0..MaxTimer further token advances.
Timers == {-1} \cup 0..MaxTimer

\* expectPeek is called with these kinds.
ExpectKinds == {"JOIN", "BY", "RPAREN", "IDENT"}

(***************************************************************************)
(* The state machine: a parser is built on a text, and its methods are     *)
(* called one after the other.                                             *)
(***************************************************************************)
NoCall ==
    [op |-> "", arg |-> "", returned |-> TRUE, ok |-> TRUE, val |-> Nil,
     err |-> NoErr]

\* NewWithContext(ctx, input), ctx with `t` token advances to go once the
\* constructor has returned
Built(input, t) ==
    /\ p = NewWithContext(IF t < 0 THEN -1 ELSE t + 2, input)
    /\ ret = [NoCall EXCEPT !.op = "NewWithContext"]
    /\ hist = <<>>

Init == \E input \in Inputs, t \in Timers : Built(input, t)

InitUnit == \E input \in UnitInputs, t \in Timers : Built(input, t)

\* A call may start when the previous one has returned.
CanCall == ~p.hung /\ Len(hist) < MaxCalls

\* The parser at the start of a call (the per-call spin count restarts).
AtCall == [p EXCEPT !.spin = 0]

\* The call `op` returned `r` (a parser, ok, val, err).
Return(op, arg, r) ==
    /\ p' = r.p
    /\ ret' = [op |-> op, arg |-> arg, returned |-> ~r.p.hung, ok |-> r.ok,
               val |-> r.val, err |-> r.err]
    /\ hist' = Append(hist, [op |-> op, arg |-> arg, ok |-> r.ok, pre |-> p])

CallParseStatement ==
    /\ CanCall
    /\ Return("ParseStatement", "", ParseStatement(AtCall))

CallSynchronize ==
    /\ CanCall
    /\ Return("synchronize", "", Ok(synchronize(AtCall), Nil))

CallNextToken ==
    /\ CanCall
    /\ Return("nextToken", "", Ok(nextToken(AtCall), Nil))

CallExpectPeek ==
    /\ CanCall
    /\ \E t \in ExpectKinds :
          \E e \in {expectPeek(AtCall, t)} :
              Return("expectPeek", t,
                     [p |-> e.p, ok |-> e.ok, val |-> Nil, err |-> NoErr])

CallParseExpression ==
    /\ CanCall
    /\ Return("parseExpression", "", parseExpression(AtCall))

CallParsePrimaryExpression ==
    /\ CanCall
    /\ Return("parsePrimaryExpression", "", parsePrimaryExpression(AtCall))

\* The caller cancels the context between two calls.
Cancel ==
    /\ ~p.hung
    /\ ~Done(p)
    /\ p' = [p EXCEPT !.left = 0]
    /\ UNCHANGED <<ret, hist>>

\* The statement-level methods: parsing a statement and resynchronizing.
Next ==
    \/ CallParseStatement
    \/ CallSynchronize
    \/ Cancel

Spec == Init /\ [][Next]_vars

\* The unexported methods, called one at a time as the package's own tests
\* can call them.
NextUnit ==
    \/ CallNextToken
    \/ CallExpectPeek
    \/ CallParseExpression
    \/ CallParsePrimaryExpression
    \/ Cancel

SpecUnit == InitUnit /\ [][NextUnit]_vars

(***************************************************************************)
(* Properties.                                                             *)
(***************************************************************************)
\* the text the parser was built on
Input == p.l.input

\* the context has not been cancelled so far
NotCancelled == ~Done(p)

\* `op` is the only call made so far, it has returned, and the context was
\* not cancelled
FirstCall(op) ==
    Len(hist) = 1 /\ hist[1].op = op /\ ret.returned /\ NotCancelled

\* C1: on return of ParseStatement either a statement is returned and
\* Errors() is empty, or no statement is returned and Errors() is a
\* non-empty list of diagnostics; a nil statement with an empty Errors(), or
\* a statement with a non-empty Errors(), never occurs.
C1_StatementXorErrors ==
    (ret.op = "ParseStatement" /\ ret.returned) =>
        \/ ret.ok /\ ret.val # Nil /\ Errors(p) = <<>>
        \/ ~ret.ok /\ ret.val = Nil /\ Errors(p) # <<>>

\* The joins written in a text, in source order: for each JOIN keyword the
\* join type written before it (INNER for a bare JOIN) and the table name
\* after it.
RECURSIVE WrittenJoins(_, _)
WrittenJoins(input, i) ==
    IF i > Len(input) THEN <<>>
    ELSE IF input[i] # "JOIN" THEN WrittenJoins(input, i + 1)
    ELSE << [joinType |-> IF input[i - 1] \in {"INNER", "LEFT", "RIGHT", "FULL"}
                          THEN input[i - 1] ELSE "INNER",
             name |-> input[i + 1]] >> \o WrittenJoins(input, i + 1)

\* the join types and table names of a parsed statement
ParsedJoins(stmt) ==
    [k \in 1..Len(stmt.joins) |->
        [joinType |-> stmt.joins[k].joinType, name |-> stmt.joins[k].table.name]]

\* C2: for a SELECT whose FROM clause is followed by N >= 0 join clauses
\* [INNER|LEFT|RIGHT|FULL] JOIN tableRef ON expr, ParseStatement returns a
\* SelectStatement whose Joins are the N joins written, in source order, with
\* their join types (INNER for a bare JOIN) and table references.
C2_JoinsAsWritten ==
    (FirstCall("ParseStatement") /\ Input \in JoinSelects) =>
        /\ ret.ok
        /\ ParsedJoins(ret.val) = WrittenJoins(Input, 1)

\* The position of the first semicolon of a text (0 when there is none).
SemiAt(input) ==
    IF \E i \in 1..Len(input) : input[i] = ";"
    THEN CHOOSE i \in 1..Len(input) :
             input[i] = ";" /\ \A j \in 1..(i - 1) : input[j] # ";"
    ELSE 0

\* S2 of a text S1 ; S2
SecondStatement(input) == SubSeq(input, SemiAt(input) + 1, Len(input))

\* ParseStatement, synchronize, ParseStatement were called in that order on
\* a parser built on S1 ; S2 with a context that was never cancelled; the
\* first call failed, and S2 parsed on its own is accepted.
RecoverySequence ==
    /\ Len(hist) = 3
    /\ hist[1].op = "ParseStatement" /\ ~hist[1].ok
    /\ hist[2].op = "synchronize"
    /\ hist[3].op = "ParseStatement"
    /\ ret.returned
    /\ NotCancelled
    /\ SemiAt(Input) > 0
    /\ ParseStatement(New(SecondStatement(Input))).ok

\* the second ParseStatement returned the statement S2 parses to, and the
\* only errors recorded are those of the first call, at most one
RecoveredSecond ==
    /\ ret.ok
    /\ ret.val = ParseStatement(New(SecondStatement(Input))).val
    /\ Len(hist[2].pre.errors) <= 1
    /\ Errors(p) = hist[2].pre.errors

\* The token current when the first call returned lies in S1 or is the
\* semicolon, and no token of S1 after it is a statement keyword.
NoKeywordAfterFailure ==
    /\ hist[2].pre.curToken.type # "EOF"
    /\ hist[2].pre.curToken.column <= SemiAt(Input)
    /\ \A i \in (hist[2].pre.curToken.column + 1)..(SemiAt(Input) - 1) :
           TokenType(Input[i]) \notin StatementKeywords

\* C3 (as stated): for S1 ; S2 with S2 a valid SELECT and S1 failing to
\* parse, ParseStatement, synchronize, ParseStatement reports exactly one
\* error for S1 and the second ParseStatement returns the AST of S2.
C3_RecoversAsStated == RecoverySequence => RecoveredSecond

\* C3 (amended): the same, when no statement keyword occurs in S1 after the
\* token on which the first ParseStatement stopped.
C3_Recovers == (RecoverySequence /\ NoKeywordAfterFailure) => RecoveredSecond

\* SELECT 1 FROM ; SELECT 2 FROM t has been recovered from.
C3_Witness ==
    /\ RecoverySequence
    /\ NoKeywordAfterFailure
    /\ Input = <<"SELECT", "1", "FROM", ";", "SELECT", "2", "FROM", "t">>
    /\ ret.ok
    /\ ret.val.columns = <<IntLiteral(2)>>
    /\ ret.val.from # Nil

\* the parser as call number k of the history left it
After(k) == IF k < Len(hist) THEN hist[k + 1].pre ELSE p

\* the cancellation errors recorded so far
CancellationErrors(q) ==
    {i \in 1..Len(q.errors) : q.errors[i].msg = CancelMsg}

\* C4: once the context is cancelled, all further attempts to advance
\* together append a single cancellation error, and every call made on a
\* cancelled context leaves the current token, the peek token and the token
\* count unchanged (stated of the calls that have returned).
C4_SingleCancellationError ==
    ~p.hung =>
    /\ Cardinality(CancellationErrors(p)) <= 1
    /\ \A k \in 1..Len(hist) :
           Done(hist[k].pre) =>
               /\ After(k).curToken = hist[k].pre.curToken
               /\ After(k).peekToken = hist[k].pre.peekToken
               /\ After(k).tokenCount = hist[k].pre.tokenCount

\* C5: when the context is cancelled at any token advance of ParseStatement
\* or synchronize, the call returns after a bounded number of further steps:
\* no call keeps running once tokens stop advancing.
C5_ReturnsAfterCancellation ==
    (ret.op \in {"ParseStatement", "synchronize"}) => ret.returned

\* The pieces of a text between the occurrences of `sep`.
RECURSIVE SplitOn(_, _)
SplitOn(s, sep) ==
    IF \A i \in 1..Len(s) : s[i] # sep THEN <<s>>
    ELSE Only({ <<SubSeq(s, 1, i - 1)>> \o SplitOn(SubSeq(s, i + 1, Len(s)), sep) :
                i \in {CHOOSE j \in 1..Len(s) :
                           s[j] = sep /\ \A h \in 1..(j - 1) : s[h] # sep} })

\* the select list items written in SELECT item, ..., item FROM t
WrittenItems(input) == SplitOn(SubSeq(input, 2, Len(input) - 2), ",")

\* the column a select list item stands for
ItemColumn(item) ==
    IF item = <<"*">> THEN StarExpression("")
    ELSE parseExpression(New(item)).val

\* C6: for a select list of K comma-separated items, each '*' or an
\* expression, the returned SelectStatement has exactly K columns in source
\* order, a StarExpression for each '*', also when the first item is '*'
\* (SELECT *, a FROM t yields two columns and the FROM clause).
C6_ColumnsAsWritten ==
    (FirstCall("ParseStatement") /\ Input \in ListSelects) =>
        /\ ret.ok
        /\ ret.val.columns =
               [k \in 1..Len(WrittenItems(Input)) |->
                   ItemColumn(WrittenItems(Input)[k])]
        /\ ret.val.from = FromClause(<<TableReference("", "t", "")>>)

\* the position of the BY of ORDER BY
OrderByAt(input) ==
    CHOOSE i \in 2..Len(input) : input[i - 1] = "ORDER" /\ input[i] = "BY"

\* the items written after ORDER BY
WrittenOrderItems(input) ==
    SplitOn(SubSeq(input, OrderByAt(input) + 1, Len(input)), ",")

\* the direction written in an item, ASC when none is
ItemDirection(item) ==
    IF ToUpper(item[Len(item)]) \in {"ASC", "DESC"}
    THEN ToUpper(item[Len(item)]) ELSE "ASC"

\* the expression of an item
ItemExpression(item) ==
    IF ToUpper(item[Len(item)]) \in {"ASC", "DESC"}
    THEN parseExpression(New(SubSeq(item, 1, Len(item) - 1))).val
    ELSE parseExpression(New(item)).val

OrderByScenario ==
    <<"SELECT", "a", "FROM", "t1", ",", "t2", "WHERE", "a", ">", "5",
      "ORDER", "BY", "a", "DESC">>

\* C7: for a SELECT ending in ORDER BY item1, ..., itemK, each item an
\* expression optionally followed by ASC or DESC in any letter case, the
\* returned SelectStatement has exactly K OrderByClause entries in source
\* order with the written direction, ASC when none is written; the scenario
\* SELECT a FROM t1, t2 WHERE a > 5 ORDER BY a DESC yields two FROM tables,
\* a WHERE expression and one DESC clause.
C7_OrderByAsWritten ==
    (FirstCall("ParseStatement") /\ Input \in OrderSelects \cup {OrderByScenario}) =>
        /\ ret.ok
        /\ ret.val.orderBy =
               [k \in 1..Len(WrittenOrderItems(Input)) |->
                   OrderByClause(ItemExpression(WrittenOrderItems(Input)[k]),
                                 ItemDirection(WrittenOrderItems(Input)[k]))]
        /\ (Input = OrderByScenario =>
               /\ Len(ret.val.from.tables) = 2
               /\ ret.val.where # Nil)

\* The position of the first ')' of a text (0 when there is none).
ClosingAt(input) ==
    IF \E i \in 1..Len(input) : input[i] = ")"
    THEN CHOOSE i \in 1..Len(input) :
             input[i] = ")" /\ \A j \in 1..(i - 1) : input[j] # ")"
    ELSE 0

\* the tokens between the '(' a text starts with and the first ')'
Grouped(input) == SubSeq(input, 2, ClosingAt(input) - 1)

\* The text is '(' e ')' ... with e a valid expression without parentheses.
StartsWithGroup(input) ==
    /\ ClosingAt(input) > 2
    /\ input[1] = "("
    /\ \A i \in 2..(ClosingAt(input) - 1) : input[i] # "("
    /\ parseExpression(New(Grouped(input))).ok
    /\ parseExpression(New(Grouped(input))).p.curToken.type = "EOF"

\* C8: when the current token is '(' and the following tokens are a valid
\* expression e followed by its ')', parsePrimaryExpression returns the AST
\* of e, records no error, and leaves the current token on the token after
\* that ')'.
C8_GroupedPrimary ==
    (FirstCall("parsePrimaryExpression") /\ StartsWithGroup(Input)) =>
        /\ ret.ok
        /\ ret.val = parseExpression(New(Grouped(Input))).val
        /\ Errors(p) = <<>>
        /\ p.curToken = TokenAt(Input, ClosingAt(Input) + 1)

\* the AST of a primary: of the expression inside for a parenthesized one
PrimaryAst(primary) ==
    IF primary[1] = "("
    THEN parseExpression(New(SubSeq(primary, 2, Len(primary) - 1))).val
    ELSE parsePrimaryExpression(New(primary)).val

\* C9: for a chain p0 op1 p1 ... opn pn of primaries and infix operators,
\* parseExpression returns the BinaryExpression nested strictly to the left,
\* operators and operands in source order, whatever the operators are.
C9_LeftNestedChain ==
    FirstCall("parseExpression") =>
        /\ \A p0 \in Primaries, o1 \in ChainOperators, p1 \in Primaries :
               Input = p0 \o o1 \o p1 =>
                   /\ ret.ok
                   /\ ret.val = BinaryExpression(PrimaryAst(p0), o1[1], PrimaryAst(p1))
        /\ \A o1 \in ChainOperators, o2 \in ChainOperators :
               Input = <<"a", o1[1], "b", o2[1], "c">> =>
                   /\ ret.ok
                   /\ ret.val =
                          BinaryExpression(
                              BinaryExpression(ColumnReference("", "a"), o1[1],
                                               ColumnReference("", "b")),
                              o2[1], ColumnReference("", "c"))

\* C10: every diagnostic of a failed parse, the error ParseStatement returns
\* and every entry of Errors(), carries the line and column of the offending
\* token; for SELECT FROM t a diagnostic carries the position of FROM.
C10_DiagnosticsCarryPosition ==
    (FirstCall("ParseStatement") /\ ~ret.ok) =>
        /\ ret.err.pos # <<>>
        /\ \A i \in 1..Len(Errors(p)) : Errors(p)[i].pos # <<>>
        /\ (Input = <<"SELECT", "FROM", "t">> =>
               \/ ret.err.pos = <<1, 2>>
               \/ \E i \in 1..Len(Errors(p)) : Errors(p)[i].pos = <<1, 2>>)

\* the statement kinds whose parsers are stubs
StubKinds == {"INSERT", "UPDATE", "DELETE"}

\* the parser before the last call
Before == hist[Len(hist)].pre

\* the last call was ParseStatement
LastIsParseStatement == Len(hist) > 0 /\ ret.op = "ParseStatement"

\* current token, peek token and token count are those of `q0`
SameTokens(q0, q1) ==
    /\ q1.curToken = q0.curToken
    /\ q1.peekToken = q0.peekToken
    /\ q1.tokenCount = q0.tokenCount

\* C11: ParseStatement dispatches on the kind of the current token: SELECT
\* goes to the SELECT parser (which takes a SelectStatement from the pool);
\* INSERT, UPDATE, DELETE return no statement and a 'not implemented' error;
\* every other kind returns no statement and an 'unsupported statement
\* type' error.  In all non-SELECT cases the current token, the peek token
\* and the token count are the same after the call as before.
C11_Dispatch ==
    /\ LastIsParseStatement =>
          /\ (Before.curToken.type = "SELECT") =>
                /\ p.gets > Before.gets
                /\ ret.ok \/ ~ret.returned \/
                       /\ ret.err.msg # "unsupported statement type: %s"
                       /\ \A k \in StubKinds :
                              ret.err # Err(k \o " statement parsing not implemented yet", <<>>)
          /\ (Before.curToken.type \in StubKinds) =>
                /\ ret.returned /\ ~ret.ok /\ ret.val = Nil
                /\ ret.err = Err(Before.curToken.type \o
                                 " statement parsing not implemented yet", <<>>)
          /\ (Before.curToken.type \notin StubKinds \cup {"SELECT"}) =>
                /\ ret.returned /\ ~ret.ok /\ ret.val = Nil
                /\ ret.err = Err("unsupported statement type: %s",
                                 <<Before.curToken.literal>>)
    /\ \A k \in 1..Len(hist) :
          (hist[k].op = "ParseStatement" /\ hist[k].pre.curToken.type # "SELECT") =>
              /\ ~hist[k].ok
              /\ SameTokens(hist[k].pre, After(k))

\* C12: no pooled node is leaked on an error path: whenever ParseStatement
\* returns an error, the number of pool Get calls made by the call equals the
\* number of pool Put calls made by it.
C12_NoLeakOnError ==
    (LastIsParseStatement /\ ret.returned /\ ~ret.ok) =>
        p.gets - Before.gets = p.puts - Before.puts

\* expectPeek(t) found the peek token of kind t, advanced by exactly one
\* token and returned true: from q0 to q1
ExpectPeekAdvanced(q0, q1, t, ok) ==
    /\ q0.peekToken.type = t
    /\ ok
    /\ q1.curToken = q0.peekToken
    /\ q1.curToken.type = t
    /\ q1.peekToken = LexerNextToken(q0.l)
    /\ q1.tokenCount = q0.tokenCount + 1

\* expectPeek(t) appended exactly one syntax error (expected kind, actual
\* kind, line and column of the peek token) and returned false without
\* advancing: from q0 to q1
ExpectPeekRefused(q0, q1, t, ok) ==
    /\ q0.peekToken.type # t
    /\ ~ok
    /\ q1.errors = Append(q0.errors,
                          NewSyntaxError(t, q0.peekToken.type,
                                         q0.peekToken.line, q0.peekToken.column))
    /\ SameTokens(q0, q1)

\* C13: in every parser state, expectPeek(kind) either finds the peek token
\* of that kind, advances by exactly one token and returns true with the
\* current token of kind `kind`, or appends exactly one syntax error
\* (expected kind, actual kind, line and column of the peek token) and
\* returns false with current token, peek token and token count unchanged.
C13_ExpectPeekFrame ==
    \A k \in 1..Len(hist) :
        hist[k].op = "expectPeek" =>
            \/ ExpectPeekAdvanced(hist[k].pre, After(k), hist[k].arg, hist[k].ok)
            \/ ExpectPeekRefused(hist[k].pre, After(k), hist[k].arg, hist[k].ok)

\* The first position after c of a text that holds a semicolon or a statement
\* keyword, the end of the text when there is none.
StopAt(input, c) ==
    CHOOSE j \in (c + 1)..(Len(input) + 1) \cup {Len(input) + 1} :
        /\ j = Len(input) + 1
           \/ TokenType(input[j]) \in StatementKeywords \cup {"SEMICOLON"}
        /\ \A i \in (c + 1)..(j - 1) :
               TokenType(input[i]) \notin StatementKeywords \cup {"SEMICOLON"}

\* synchronize, called with the token at c current, stopped at position j:
\* on the token after j when j holds a semicolon, on j otherwise
StoppedAt(input, j, q1) ==
    q1.curToken = IF j <= Len(input) /\ TokenType(input[j]) = "SEMICOLON"
                  THEN TokenAt(input, j + 1)
                  ELSE TokenAt(input, j)

\* C14: with no cancellation synchronize terminates, and on return the
\* current token is EOF, a statement keyword, or the token following a
\* semicolon that synchronize consumed; among the tokens strictly after the
\* one current at the call it stops at the first semicolon or statement
\* keyword and never skips past one.
C14_SynchronizeStops ==
    NotCancelled =>
        /\ ret.op = "synchronize" => ret.returned
        /\ \A k \in 1..Len(hist) :
               hist[k].op = "synchronize" =>
                   /\ StoppedAt(Input, StopAt(Input, hist[k].pre.curToken.column),
                                After(k))
                   /\ \/ After(k).curToken.type \in StatementKeywords \cup {"EOF"}
                      \/ /\ After(k).curToken.column > 1
                         /\ Input[After(k).curToken.column - 1] = ";"

\* After a failed statement synchronize has skipped several tokens, consumed
\* the semicolon and stopped on the SELECT after it.
C14_Witness ==
    /\ NotCancelled
    /\ Len(hist) = 2
    /\ hist[1].op = "ParseStatement" /\ ~hist[1].ok
    /\ ret.op = "synchronize" /\ ret.returned
    /\ p.curToken.column > Before.curToken.column + 2
    /\ Input[p.curToken.column - 1] = ";"
    /\ p.curToken.type = "SELECT"

\* C15: a successful parse consumes the whole statement: whenever
\* ParseStatement returns a SelectStatement without error, with no
\* cancellation, the current token is EOF, a semicolon or a leading statement
\* keyword, so no token of the statement is left unconsumed and unreported.
C15_WholeStatementConsumed ==
    (LastIsParseStatement /\ ret.returned /\ ret.ok /\ NotCancelled) =>
        p.curToken.type \in StatementKeywords \cup {"EOF", "SEMICOLON"}

====
